---------------------------- MODULE Spec2Model ----------------------------
(***************************************************************************)
(* A model of #[derive(Builder)] (builder/src/lib.rs) and of the builder   *)
(* code it emits.  derive is a pure function from a DeriveInput to a token *)
(* stream; the emitted methods are then interpreted on a builder value.    *)
(***************************************************************************)
EXTENDS Integers, Sequences, FiniteSets, TLC

VARIABLES
    input,      \* the DeriveInput handed to derive
    output,     \* what derive returned for it (NotExpanded before the call)
    builder,    \* the builder value: field ident -> Option slot
    old,        \* the builder value as it was before the last method call
    trace,      \* the method calls made on the builder since the factory
    ret         \* what the last method call returned

vars == <<input, output, builder, old, trace, ret>>

(***************************************************************************)
(* Bounds                                                                  *)
(***************************************************************************)
\* longest field list of a target drawn from the pool of declarations
MaxFields == 2
\* most method calls made on one builder value of a target of the pool
MaxCalls == 3
\* most method calls made on one builder value of the Command of main.rs
MaxCommandCalls == 5
\* longest field list of a target expanded by SpecDerive
MaxDeriveFields == 2

(***************************************************************************)
(* Syntax trees (syn)                                                      *)
(***************************************************************************)
NoArguments == [kind |-> "None"]

AngleBracketed(args) == [kind |-> "AngleBracketed", args |-> args]

PathSegment(ident, arguments) == [ident |-> ident, arguments |-> arguments]

TypePath(qself, segments) == [kind |-> "Path", qself |-> qself, segments |-> segments]

TypeArg(ty) == [kind |-> "Type", ty |-> ty]

LifetimeArg == [kind |-> "Lifetime"]

\* a type written as one identifier: String
Named(ident) == TypePath(FALSE, <<PathSegment(ident, NoArguments)>>)

\* a type written as one identifier with type arguments: Vec<String>
Generic(ident, tys) ==
    TypePath(FALSE, <<PathSegment(ident, AngleBracketed([i \in 1..Len(tys) |-> TypeArg(tys[i])]))>>)

\* parse_quote! { std::option::Option<#ty> }
StdOption(ty) ==
    TypePath(FALSE, <<PathSegment("std", NoArguments), PathSegment("option", NoArguments),
                      PathSegment("Option", AngleBracketed(<<TypeArg(ty)>>))>>)

\* parse_quote! { std::vec::Vec<#field_ty> }
StdVec(ty) ==
    TypePath(FALSE, <<PathSegment("std", NoArguments), PathSegment("vec", NoArguments),
                      PathSegment("Vec", AngleBracketed(<<TypeArg(ty)>>))>>)

\* Path::is_ident: a path of exactly one segment, equal to the identifier
is_ident(path, ident) == Len(path) = 1 /\ path[1] = ident

\* expressions, as far as match_vec_each tells them apart
ExprPath(path) == [kind |-> "Path", path |-> path]

ExprLitStr(value) == [kind |-> "Lit", lit |-> "Str", value |-> value]

ExprLitInt(value) == [kind |-> "Lit", lit |-> "Int", value |-> value]

ExprAssign(left, right) == [kind |-> "Assign", left |-> left, right |-> right]

ExprCall(func) == [kind |-> "Call", func |-> func]

\* attribute metas: #[path], #[path = "v"], #[path(tokens)]; the tokens of a
\* list are kept as the expression they parse to, or as Unparsable
MetaPath(path) == [path |-> path, meta |-> "Path"]

MetaNameValue(path) == [path |-> path, meta |-> "NameValue"]

MetaList(path, tokens) == [path |-> path, meta |-> "List", tokens |-> tokens]

Unparsable == [kind |-> "Unparsable"]

Field(ident, ty, attrs) == [ident |-> ident, ty |-> ty, attrs |-> attrs]

StructNamed(ident, fields) == [ident |-> ident, data |-> "StructNamed", fields |-> fields]

\* a tuple struct, an enum: anything that is not a struct with named fields
NotNamed(ident, data) == [ident |-> ident, data |-> data, fields |-> <<>>]

(***************************************************************************)
(* match_vec_each                                                          *)
(***************************************************************************)
\* the text is written between backquotes in the source: `builder(...)`
ExpectedEach == "expected builder(each = \"...\")"

\* the messages syn itself gives when Attribute::parse_args fails
SynExpectedParens == "expected attribute arguments in parentheses"

SynExpectedExpr == "expected an expression"

OkNone == [kind |-> "Ok", some |-> FALSE]

OkSome(name) == [kind |-> "Ok", some |-> TRUE, name |-> name]

SynError(span, message) == [kind |-> "Err", span |-> span, message |-> message]

err(span) == SynError(span, ExpectedEach)

\* Attribute::parse_args::<Expr>()
parse_args(attr) ==
    IF attr.meta # "List" THEN SynError("attr", SynExpectedParens)
    ELSE IF attr.tokens.kind = "Unparsable" THEN SynError("tokens", SynExpectedExpr)
    ELSE [kind |-> "Ok", expr |-> attr.tokens]

match_vec_each(attrs) ==
    IF attrs = <<>> THEN OkNone
    ELSE LET attr == attrs[1] IN
         IF Len(attrs) # 1 THEN err("attr")
         ELSE IF ~is_ident(attr.path, "builder") THEN err("attr.path")
         ELSE LET parsed == parse_args(attr) IN
              IF parsed.kind = "Err" THEN parsed
              ELSE LET assign == parsed.expr IN
                   IF assign.kind # "Assign" THEN err("attr")
                   ELSE IF assign.left.kind # "Path" THEN err("assign")
                   ELSE IF ~is_ident(assign.left.path, "each") THEN err("lhs_path")
                   ELSE IF ~(assign.right.kind = "Lit" /\ assign.right.lit = "Str")
                        THEN err("assign")
                   ELSE OkSome(assign.right.value)


(***************************************************************************)
(* derive: the field loop                                                  *)
(***************************************************************************)
\* the pattern both shape tests share: a path type without qself whose
\* first segment has angle brackets whose first argument is a type
HasInnerTy(ty) ==
    /\ ty.kind = "Path"
    /\ ~ty.qself
    /\ ty.segments[1].arguments.kind = "AngleBracketed"
    /\ Len(ty.segments[1].arguments.args) > 0
    /\ ty.segments[1].arguments.args[1].kind = "Type"

inner_ty(ty) == ty.segments[1].arguments.args[1].ty

is_option(ty) == HasInnerTy(ty) /\ ty.segments[1].ident = "Option"

is_vec(ty) == HasInnerTy(ty) /\ ty.segments[1].ident = "Vec"

\* the three lists the loop fills, and the fields of builder_struct so far
NoFields == [field_idents |-> <<>>, field_tys |-> <<>>, vec_each |-> <<>>, fields |-> <<>>]

FieldTy(ty, speciality) == [ty |-> ty, speciality |-> speciality]

\* the Unknown entry pushed under `if !is_option` alone, a Vec field
\* getting two entries
PushFieldTy_TwiceForVec(field_tys, ty) ==
    LET afterOption == IF is_option(ty)
                       THEN Append(field_tys, FieldTy(inner_ty(ty), "Option"))
                       ELSE field_tys
        afterVec == IF is_vec(ty)
                    THEN Append(afterOption, FieldTy(inner_ty(ty), "Vec"))
                    ELSE afterOption
    IN  IF ~is_option(ty)
        THEN Append(afterVec, FieldTy(ty, "Unknown"))
        ELSE afterVec

\* field_tys after the shape tests of one field
PushFieldTy(field_tys, ty) ==
    LET afterOption == IF is_option(ty)
                       THEN Append(field_tys, FieldTy(inner_ty(ty), "Option"))
                       ELSE field_tys
        afterVec == IF is_vec(ty)
                    THEN Append(afterOption, FieldTy(inner_ty(ty), "Vec"))
                    ELSE afterOption
    IN  IF ~is_option(ty) /\ ~is_vec(ty)
        THEN Append(afterVec, FieldTy(ty, "Unknown"))
        ELSE afterVec

\* the directive of one field: match_vec_each is asked for a Vec field only
ParsedAttr(field) == IF is_vec(field.ty) THEN match_vec_each(field.attrs) ELSE OkNone

\* the field as it stands in builder_struct: no attributes, Option-wrapped
\* unless it is an Option already
BuilderField(field) ==
    Field(field.ident,
          IF is_option(field.ty) THEN field.ty ELSE StdOption(field.ty),
          <<>>)

\* one iteration of the loop; called when the field's directive parsed
FieldStep(acc, field) ==
    [field_idents |-> Append(acc.field_idents, field.ident),
     field_tys    |-> PushFieldTy(acc.field_tys, field.ty),
     vec_each     |-> Append(acc.vec_each, ParsedAttr(field)),
     fields       |-> Append(acc.fields, BuilderField(field))]

\* a loop that drops a directive it cannot parse and goes on
RECURSIVE FieldLoop_SkipBadDirective(_, _, _)
FieldLoop_SkipBadDirective(fields, i, acc) ==
    IF i > Len(fields) THEN [kind |-> "Ok", acc |-> acc]
    ELSE FieldLoop_SkipBadDirective(fields, i + 1,
            FieldStep(acc, IF ParsedAttr(fields[i]).kind = "Err"
                           THEN [fields[i] EXCEPT !.attrs = <<>>]
                           ELSE fields[i]))

\* the loop over fields[i..]: the first directive that fails ends it
RECURSIVE FieldLoop(_, _, _)
FieldLoop(fields, i, acc) ==
    IF i > Len(fields) THEN [kind |-> "Ok", acc |-> acc]
    ELSE IF ParsedAttr(fields[i]).kind = "Err" THEN ParsedAttr(fields[i])
    ELSE FieldLoop(fields, i + 1, FieldStep(acc, fields[i]))

(***************************************************************************)
(* derive: the emitted items                                               *)
(***************************************************************************)
\* format_ident!("{}{}", input.ident, "Builder")
builder_ident(name) == name \o "Builder"

\* impl #name { fn builder() -> #builder_ident { ... } }
builder_fn(name, field_idents) ==
    [self_ty |-> name, name |-> "builder", returns |-> builder_ident(name),
     inits |-> [i \in 1..Len(field_idents) |-> [ident |-> field_idents[i], value |-> "None"]]]

\* pub fn #fn_name (&mut self, #fn_name : #field_ty) -> &mut Self
each_method(fn_name, field_ident, field_ty) ==
    [kind |-> "each", name |-> fn_name, field |-> field_ident, arg_ty |-> field_ty]

\* pub fn #field_ident (&mut self, #field_ident : #arg_ty) -> &mut Self
all_at_once_method(field_ident, field_ty) ==
    [kind |-> "set", name |-> field_ident, field |-> field_ident,
     arg_ty |-> IF field_ty.speciality = "Vec" THEN StdVec(field_ty.ty) ELSE field_ty.ty]

\* the loop with generate_all_at_once never cleared
FieldMethods_AlwaysAllAtOnce(acc, field_idx) ==
    LET field_ident == acc.field_idents[field_idx]
        each == acc.vec_each[field_idx]
    IN  (IF each.some
         THEN <<each_method(each.name, field_ident, acc.field_tys[field_idx].ty)>>
         ELSE <<>>)
        \o <<all_at_once_method(field_ident, acc.field_tys[field_idx])>>

\* the methods the loop emits for the field at field_idx
FieldMethods(acc, field_idx) ==
    LET field_ident == acc.field_idents[field_idx]
        each == acc.vec_each[field_idx]
        generate_all_at_once == ~(each.some /\ each.name = field_ident)
    IN  (IF each.some
         THEN <<each_method(each.name, field_ident, acc.field_tys[field_idx].ty)>>
         ELSE <<>>)
        \o
        (IF generate_all_at_once
         THEN <<all_at_once_method(field_ident, acc.field_tys[field_idx])>>
         ELSE <<>>)

RECURSIVE MethodLoop(_, _)
MethodLoop(acc, field_idx) ==
    IF field_idx > Len(acc.field_idents) THEN <<>>
    ELSE FieldMethods(acc, field_idx) \o MethodLoop(acc, field_idx + 1)

\* the check emitted for a Vec field instead of a field of unknown shape
Check_OnVec(acc, field_idx) ==
    IF acc.field_tys[field_idx].speciality = "Vec"
    THEN <<acc.field_idents[field_idx]>>
    ELSE <<>>

\* the (check, assign) pair of one field
Check(acc, field_idx) ==
    IF acc.field_tys[field_idx].speciality = "Unknown"
    THEN <<acc.field_idents[field_idx]>>
    ELSE <<>>

\* the initialiser of a Vec field written with unwrap() for unwrap_or()
Assign_VecUnwrap(acc, field_idx) ==
    [ident |-> acc.field_idents[field_idx],
     take  |-> CASE acc.field_tys[field_idx].speciality = "Option" -> "replace"
                 [] OTHER -> "unwrap"]

Assign(acc, field_idx) ==
    [ident |-> acc.field_idents[field_idx],
     take  |-> CASE acc.field_tys[field_idx].speciality = "Option" -> "replace"
                 [] acc.field_tys[field_idx].speciality = "Vec" -> "unwrap_or_new"
                 [] OTHER -> "unwrap"]

RECURSIVE uninit_checks(_, _)
uninit_checks(acc, field_idx) ==
    IF field_idx > Len(acc.field_idents) THEN <<>>
    ELSE Check(acc, field_idx) \o uninit_checks(acc, field_idx + 1)

field_assigns(acc) == [field_idx \in 1..Len(acc.field_idents) |-> Assign(acc, field_idx)]

\* pub fn build(&mut self) -> Result<#name, Box<dyn Error>>
build_method(name, acc) ==
    [kind |-> "build", name |-> "build", returns |-> name,
     checks |-> uninit_checks(acc, 1), assigns |-> field_assigns(acc)]

NotExpanded == [kind |-> "NotExpanded"]

CompileError(e) == [kind |-> "CompileError", message |-> e.message, span |-> e.span]

Panicked == [kind |-> "Panic"]

Tokens(name, acc) ==
    [kind |-> "Tokens",
     builder_struct  |-> [ident |-> builder_ident(name), fields |-> acc.fields],
     builder_fn      |-> builder_fn(name, acc.field_idents),
     builder_methods |-> [self_ty |-> builder_ident(name),
                          methods |-> Append(MethodLoop(acc, 1), build_method(name, acc))]]

derive(in) ==
    IF in.data # "StructNamed" THEN Panicked
    ELSE LET looped == FieldLoop(in.fields, 1, NoFields) IN
         IF looped.kind = "Err" THEN CompileError(looped)
         ELSE Tokens(in.ident, looped.acc)

(***************************************************************************)
(* The emitted code, run                                                   *)
(***************************************************************************)
None == [some |-> FALSE]

Some(v) == [some |-> TRUE, val |-> v]

NoBuilder == [made |-> FALSE]

Made(slots) == [made |-> TRUE, slots |-> slots]

NoReturn == [kind |-> "None"]

\* &mut Self
ReturnsSelf == [kind |-> "Self"]

Ok(value) == [kind |-> "Ok", value |-> value]

Err(message) == [kind |-> "Err", message |-> message]

Unwound == [kind |-> "Panic"]

\* #builder_ident { #( #field_idents : std::option::Option::None ), * }
Factory(fn) ==
    [ident \in {fn.inits[i].ident : i \in 1..Len(fn.inits)} |->
        LET i == CHOOSE j \in 1..Len(fn.inits) : fn.inits[j].ident = ident
        IN  IF fn.inits[i].value = "None" THEN None ELSE Some(fn.inits[i].value)]

\* an appender that puts the element in front of the collection
RunEach_Prepend(self, method, x) ==
    [self EXCEPT ![method.field] = IF @.some THEN Some(<<x>> \o @.val) ELSE Some(<<x>>)]

\* an appender whose None arm makes the collection and forgets the push
RunEach_NoFirstPush(self, method, x) ==
    [self EXCEPT ![method.field] = IF @.some THEN Some(Append(@.val, x)) ELSE Some(<<>>)]

\* the body of an appender:
\*   match self.f { Some(ref mut v) => v.push(x), None => self.f = Some(vec![x]) }
RunEach(self, method, x) ==
    [self EXCEPT ![method.field] = IF @.some THEN Some(Append(@.val, x)) ELSE Some(<<x>>)]

\* a setter that assigns a builder made anew around the one value
RunSet_FreshBuilder(self, method, v) ==
    [ident \in DOMAIN self |-> IF ident = method.field THEN Some(v) ELSE None]

\* a setter that returns self and forgets the assignment
RunSet_NoAssign(self, method, v) == self

\* the body of a whole-value setter: self.f = Some(f)
RunSet(self, method, v) == [self EXCEPT ![method.field] = Some(v)]

\* format!("Field {} not initialized", stringify!(#field_ident))
NotInitialized(field_ident) == "Field " \o field_ident \o " not initialized"

\* the checks run to the end, the last that fires deciding the message
RunChecks_LastWins(self, checks, i) ==
    LET fired == {k \in i..Len(checks) : ~self[checks[k]].some}
    IN  IF fired = {} THEN NoReturn
        ELSE Err(NotInitialized(checks[CHOOSE k \in fired : \A l \in fired : l <= k]))

\* the uninit checks, in the order emitted: the first that fires returns
RECURSIVE RunChecks(_, _, _)
RunChecks(self, checks, i) ==
    IF i > Len(checks) THEN NoReturn
    ELSE IF ~self[checks[i]].some THEN Err(NotInitialized(checks[i]))
    ELSE RunChecks(self, checks, i + 1)

\* an initialiser that reads an Option slot after emptying it
Taken_AfterReplace(slot, take) ==
    CASE take = "replace" -> None
      [] take = "unwrap_or_new" -> IF slot.some THEN slot.val ELSE <<>>
      [] OTHER -> slot.val

\* the value one field initialiser yields from the slot it replaces by None
Taken(slot, take) ==
    CASE take = "replace" -> slot
      [] take = "unwrap_or_new" -> IF slot.some THEN slot.val ELSE <<>>
      [] OTHER -> slot.val

\* the first field initialiser whose unwrap() meets None, 0 if none does
FirstPanic(self, assigns) ==
    LET bad == {i \in 1..Len(assigns) : assigns[i].take = "unwrap" /\ ~self[assigns[i].ident].some}
    IN  IF bad = {} THEN 0 ELSE CHOOSE i \in bad : \A j \in bad : i <= j

\* initialisers that clone the slots and leave them as they are
RunAssigns_Clone(self, assigns, upto) == self

\* the struct expression Ok(#name { #field_assigns }): every initialiser
\* before upto has run std::mem::replace(&mut self.f, None)
RunAssigns(self, assigns, upto) ==
    [ident \in DOMAIN self |->
        IF \E i \in 1..(upto - 1) : assigns[i].ident = ident THEN None ELSE self[ident]]

\* a build whose initialisers empty the slots before the checks run
RunBuild_ExtractFirst(self, method) ==
    LET checked == RunChecks(self, method.checks, 1)
        panic == FirstPanic(self, method.assigns)
        n == Len(method.assigns)
    IN  IF checked.kind = "Err" THEN <<checked, RunAssigns(self, method.assigns, n + 1)>>
        ELSE IF panic # 0 THEN <<Unwound, RunAssigns(self, method.assigns, panic)>>
        ELSE <<Ok([ident \in {method.assigns[i].ident : i \in 1..n} |->
                     LET i == CHOOSE j \in 1..n : method.assigns[j].ident = ident
                     IN  Taken(self[ident], method.assigns[i].take)]),
               RunAssigns(self, method.assigns, n + 1)>>

\* the body of build: <<what it returns, the builder it leaves>>
RunBuild(self, method) ==
    LET checked == RunChecks(self, method.checks, 1)
        panic == FirstPanic(self, method.assigns)
        n == Len(method.assigns)
    IN  IF checked.kind = "Err" THEN <<checked, self>>
        ELSE IF panic # 0 THEN <<Unwound, RunAssigns(self, method.assigns, panic)>>
        ELSE <<Ok([ident \in {method.assigns[i].ident : i \in 1..n} |->
                     LET i == CHOOSE j \in 1..n : method.assigns[j].ident = ident
                     IN  Taken(self[ident], method.assigns[i].take)]),
               RunAssigns(self, method.assigns, n + 1)>>

(***************************************************************************)
(* Inputs                                                                  *)
(***************************************************************************)
StringTy == Named("String")

\* #[builder(each = "name")]
Each(name) == MetaList(<<"builder">>, ExprAssign(ExprPath(<<"each">>), ExprLitStr(name)))

\* #[builder(eac = "name")]
Eac(name) == MetaList(<<"builder">>, ExprAssign(ExprPath(<<"eac">>), ExprLitStr(name)))

\* the struct of main.rs
Command ==
    StructNamed("Command",
        <<Field("executable", StringTy, <<>>),
          Field("args", Generic("Vec", <<StringTy>>), <<Each("arg")>>),
          Field("env", Generic("Vec", <<StringTy>>), <<>>),
          Field("current_dir", Generic("Option", <<StringTy>>), <<>>)>>)

\* the fields of Command, and beside them: a second plain field, a Vec
\* field whose directive repeats its own name, one with a misspelt directive
FieldPool ==
    {Command.fields[i] : i \in 1..Len(Command.fields)} \cup
    {Field("name", StringTy, <<>>),
     Field("flags", Generic("Vec", <<StringTy>>), <<Each("flags")>>),
     Field("paths", Generic("Vec", <<StringTy>>), <<Eac("path")>>)}

\* the field lists of at most n fields of the pool, no field twice
FieldLists(pool, n) ==
    UNION {{fs \in [1..k -> pool] : \A i, j \in 1..k : i # j => fs[i].ident # fs[j].ident} : k \in 0..n}

Targets == {StructNamed("Command", fs) : fs \in FieldLists(FieldPool, MaxFields)} \cup {Command}

\* the values handed to the methods
Strings == {"ls", "-l"}

Collections == {<<>>, <<"-l", "ls">>}

\* the values of a method's argument type
ValuesOf(arg_ty) ==
    IF arg_ty = StdVec(StringTy) THEN Collections ELSE Strings

\* inputs of derive alone: every shape of type and of attribute list
DeriveIdents == {"args", "env", "build"}

DeriveTypes ==
    {StringTy,
     Generic("Option", <<StringTy>>),
     Generic("Vec", <<StringTy>>),
     \* Vec<String, String>, Option<String, String>, Option<>, Vec<'a, String>
     Generic("Vec", <<StringTy, StringTy>>),
     Generic("Option", <<StringTy, StringTy>>),
     Generic("Option", <<>>),
     TypePath(FALSE, <<PathSegment("Vec", AngleBracketed(<<LifetimeArg, TypeArg(StringTy)>>))>>),
     \* Option<String>::Item
     TypePath(FALSE, <<PathSegment("Option", AngleBracketed(<<TypeArg(StringTy)>>)),
                       PathSegment("Item", NoArguments)>>),
     \* std::vec::Vec<String>, Vec<String>::Item, <Vec<String>>::Item
     TypePath(FALSE, <<PathSegment("std", NoArguments), PathSegment("vec", NoArguments),
                       PathSegment("Vec", AngleBracketed(<<TypeArg(StringTy)>>))>>),
     TypePath(FALSE, <<PathSegment("Vec", AngleBracketed(<<TypeArg(StringTy)>>)),
                       PathSegment("Item", NoArguments)>>),
     TypePath(TRUE, <<PathSegment("Vec", AngleBracketed(<<TypeArg(StringTy)>>)),
                      PathSegment("Item", NoArguments)>>),
     \* (String, String)
     [kind |-> "Tuple"]}

WellFormedAttrs == {<<Each(name)>> : name \in {"arg"} \cup DeriveIdents}

MalformedAttrs ==
    {<<Eac("x")>>,
     \* #[doc(each = "x")], #[x::builder(each = "x")]
     <<MetaList(<<"doc">>, ExprAssign(ExprPath(<<"each">>), ExprLitStr("x")))>>,
     <<MetaList(<<"x", "builder">>, ExprAssign(ExprPath(<<"each">>), ExprLitStr("x")))>>,
     \* #[builder(each = 5)], #[builder(each("x"))], #[builder(each)]
     <<MetaList(<<"builder">>, ExprAssign(ExprPath(<<"each">>), ExprLitInt("5")))>>,
     <<MetaList(<<"builder">>, ExprCall("each"))>>,
     <<MetaList(<<"builder">>, ExprPath(<<"each">>))>>,
     \* #[builder(each() = "x")], #[builder(x::each = "x")]
     <<MetaList(<<"builder">>, ExprAssign(ExprCall("each"), ExprLitStr("x")))>>,
     <<MetaList(<<"builder">>, ExprAssign(ExprPath(<<"x", "each">>), ExprLitStr("x")))>>,
     \* #[builder], #[builder = "x"], #[builder(each = )]
     <<MetaPath(<<"builder">>)>>,
     <<MetaNameValue(<<"builder">>)>>,
     <<MetaList(<<"builder">>, Unparsable)>>,
     \* #[builder(each = "arg")] #[builder(each = "arg")]
     <<Each("arg"), Each("arg")>>}

\* every attribute list on a Vec<String>; on the other types no list, a
\* well-formed one and a malformed one
DerivePool ==
    {Field(ident, Generic("Vec", <<StringTy>>), attrs) :
        ident \in DeriveIdents, attrs \in {<<>>} \cup WellFormedAttrs \cup MalformedAttrs}
    \cup
    {Field(ident, ty, attrs) :
        ident \in DeriveIdents, ty \in DeriveTypes,
        attrs \in {<<>>, <<Each("arg")>>, <<Eac("x")>>}}

DeriveTargets ==
    {StructNamed("Command", fs) : fs \in FieldLists(DerivePool, MaxDeriveFields)}
    \cup {NotNamed("Command", data) : data \in {"StructUnnamed", "StructUnit", "Enum", "Union"}}

(***************************************************************************)
(* The state machine                                                       *)
(***************************************************************************)
Init ==
    /\ input \in Targets
    /\ output = NotExpanded
    /\ builder = NoBuilder
    /\ old = NoBuilder
    /\ trace = <<>>
    /\ ret = NoReturn

\* the compiler expands #[derive(Builder)]
Derive ==
    /\ output = NotExpanded
    /\ output' = derive(input)
    /\ UNCHANGED <<input, builder, old, trace, ret>>

Methods == output.builder_methods.methods

\* Command::builder()
CallBuilder ==
    /\ output.kind = "Tokens"
    /\ builder' = Made(Factory(output.builder_fn))
    /\ old' = NoBuilder
    /\ trace' = <<>>
    /\ ret' = NoReturn
    /\ UNCHANGED <<input, output>>

CallBudget == IF input = Command THEN MaxCommandCalls ELSE MaxCalls

CanCall == output.kind = "Tokens" /\ builder.made /\ Len(trace) < CallBudget

\* builder.<appender>(x)
CallEach ==
    /\ CanCall
    /\ \E m \in 1..Len(Methods) : \E x \in Strings :
          /\ Methods[m].kind = "each"
          /\ builder' = Made(RunEach(builder.slots, Methods[m], x))
          /\ trace' = Append(trace, [kind |-> "each", name |-> Methods[m].name,
                                     field |-> Methods[m].field, arg |-> x])
    /\ old' = builder
    /\ ret' = ReturnsSelf
    /\ UNCHANGED <<input, output>>

\* builder.<setter>(v)
CallSet ==
    /\ CanCall
    /\ \E m \in 1..Len(Methods) :
          /\ Methods[m].kind = "set"
          /\ \E v \in ValuesOf(Methods[m].arg_ty) :
                /\ builder' = Made(RunSet(builder.slots, Methods[m], v))
                /\ trace' = Append(trace, [kind |-> "set", name |-> Methods[m].name,
                                           field |-> Methods[m].field, arg |-> v])
    /\ old' = builder
    /\ ret' = ReturnsSelf
    /\ UNCHANGED <<input, output>>

\* builder.build()
CallBuild ==
    /\ CanCall
    /\ \E m \in 1..Len(Methods) :
          /\ Methods[m].kind = "build"
          /\ LET ran == RunBuild(builder.slots, Methods[m]) IN
                /\ ret' = ran[1]
                /\ builder' = Made(ran[2])
                /\ trace' = Append(trace, [kind |-> "build", name |-> Methods[m].name,
                                           ok |-> ran[1].kind = "Ok"])
    /\ old' = builder
    /\ UNCHANGED <<input, output>>

Next == Derive \/ CallBuilder \/ CallEach \/ CallSet \/ CallBuild

Spec == Init /\ [][Next]_vars

\* derive alone, over every shape of input
InitDerive ==
    /\ input \in DeriveTargets
    /\ output = NotExpanded
    /\ builder = NoBuilder
    /\ old = NoBuilder
    /\ trace = <<>>
    /\ ret = NoReturn

NextDerive == Derive

SpecDerive == InitDerive /\ [][NextDerive]_vars

TypeOK ==
    /\ output.kind \in {"NotExpanded", "Tokens", "CompileError", "Panic"}
    /\ builder.made => output.kind = "Tokens"
    /\ Len(trace) <= CallBudget

(***************************************************************************)
(* Vocabulary of the properties                                            *)
(***************************************************************************)
Fields == input.fields

FieldIndexes == 1..Len(Fields)

IsPlain(i) == Fields[i].ty = StringTy

IsOptional(i) == Fields[i].ty = Generic("Option", <<StringTy>>)

IsRepeated(i) == Fields[i].ty = Generic("Vec", <<StringTy>>)

Calls == 1..Len(trace)

LastCall == trace[Len(trace)]

\* the last call made on the builder was build()
BuildReturned == builder.made /\ trace # <<>> /\ LastCall.kind = "build"

\* the calls made before the last one
Earlier == 1..(Len(trace) - 1)

\* call k is the whole-value setter / the appender of field i
IsSetOf(k, i) == trace[k].kind = "set" /\ trace[k].field = Fields[i].ident

IsEachOf(k, i) == trace[k].kind = "each" /\ trace[k].field = Fields[i].ident

\* the text the finalizer gives for a missing field
Message(ident) == "Field " \o ident \o " not initialized"

\* the slot of field i before / after the last call
OldSlot(i) == old.slots[Fields[i].ident]

Slot(i) == builder.slots[Fields[i].ident]

\* the Plain fields whose slot was empty when the last call was made
EmptyPlain == {i \in FieldIndexes : IsPlain(i) /\ ~OldSlot(i).some}

FirstEmptyPlain == CHOOSE i \in EmptyPlain : \A j \in EmptyPlain : i <= j

(***************************************************************************)
(* C1                                                                      *)
(***************************************************************************)
\* C1, as stated: when build() returns and the setter of a Plain field f was
\* never invoked on this builder, build() failed and the message names f,
\* whatever the state of the other fields.
C1_NamesTheUnsetField ==
    \A i \in FieldIndexes :
        (BuildReturned /\ IsPlain(i) /\ ~\E k \in Earlier : IsSetOf(k, i))
            => (ret.kind = "Err" /\ ret.message = Message(Fields[i].ident))

\* C1, amended: when build() returns and the setter of a Plain field f was
\* never invoked on this builder, build() failed and the message is exactly
\* "Field g not initialized" for the first Plain field g, in declaration
\* order, whose slot is empty; g is f itself exactly when every Plain field
\* declared before f holds a value.
C1_NamesFirstEmptyField ==
    \A i \in FieldIndexes :
        (BuildReturned /\ IsPlain(i) /\ ~\E k \in Earlier : IsSetOf(k, i))
            => /\ ret.kind = "Err"
               /\ i \in EmptyPlain
               /\ ret.message = Message(Fields[FirstEmptyPlain].ident)
               /\ (ret.message = Message(Fields[i].ident))
                     <=> (\A j \in 1..(i - 1) : IsPlain(j) => OldSlot(j).some)

\* build() failed naming a Plain field that was never set, after every other
\* field got a value, among them a Plain field declared before it
C1_Witness ==
    /\ BuildReturned
    /\ ret.kind = "Err"
    /\ \E i, j \in FieldIndexes :
          /\ j < i /\ IsPlain(i) /\ IsPlain(j)
          /\ \E k \in Earlier : IsSetOf(k, j)
          /\ ~\E k \in Earlier : IsSetOf(k, i)
          /\ ret.message = Message(Fields[i].ident)
          /\ ret.message = "Field name not initialized"

(***************************************************************************)
(* C2                                                                      *)
(***************************************************************************)
\* C2: when two or more Plain fields have empty slots as build() is called,
\* build() returns one error, whose message names the empty Plain field that
\* comes first in declaration order and no other field.
C2_FirstMissingReported ==
    (BuildReturned /\ Cardinality(EmptyPlain) >= 2)
        => /\ ret.kind = "Err"
           /\ ret.message = Message(Fields[FirstEmptyPlain].ident)
           /\ \A i \in EmptyPlain \ {FirstEmptyPlain} :
                 ret.message # Message(Fields[i].ident)

\* build() was called with the slots of both Plain fields empty, the field
\* called name declared first, and reported name
C2_Witness ==
    /\ BuildReturned
    /\ EmptyPlain = {1, 2}
    /\ Fields[1].ident = "name" /\ Fields[2].ident = "executable"
    /\ ret = Err("Field name not initialized")

(***************************************************************************)
(* C3                                                                      *)
(***************************************************************************)
SetterNames == {Methods[m].name : m \in {n \in 1..Len(Methods) : Methods[n].kind = "set"}}

\* the calls so far are: every whole-value setter once, in any order, and
\* then build()
EverySetterOnceThenBuild ==
    /\ BuildReturned
    /\ Len(trace) = Cardinality(SetterNames) + 1
    /\ \A k \in Earlier : trace[k].kind = "set"
    /\ \A name \in SetterNames : \E k \in Earlier : trace[k].name = name

\* the value handed to the setter of field i, the last time it was called
LastSetArg(i) ==
    trace[CHOOSE k \in Earlier : IsSetOf(k, i) /\ \A l \in Earlier : IsSetOf(l, i) => l <= k].arg

\* C3: after the factory, every generated whole-value setter called once (in
\* any order) and build(), build() succeeds and every field that has a
\* setter holds the value passed to it: Plain the value, Optional
\* present(v), Repeated the given collection.
C3_BuildsWhatWasSet ==
    (output.kind = "Tokens" /\ EverySetterOnceThenBuild)
        => /\ ret.kind = "Ok"
           /\ \A i \in FieldIndexes :
                 (\E k \in Earlier : IsSetOf(k, i))
                     => ret.value[Fields[i].ident] =
                            IF IsOptional(i) THEN Some(LastSetArg(i)) ELSE LastSetArg(i)

\* the Command of main.rs: all four setters once, then a successful build
C3_Witness ==
    /\ input = Command
    /\ output.kind = "Tokens"
    /\ EverySetterOnceThenBuild
    /\ Len(trace) = 5
    /\ ret.kind = "Ok"
    /\ ret.value["executable"] = "ls"
    /\ ret.value["args"] = <<"-l", "ls">>
    /\ ret.value["current_dir"] = Some("-l")

(***************************************************************************)
(* C4                                                                      *)
(***************************************************************************)
\* C4, as stated: for an Optional field o, a build() on a builder where o's
\* setter was never invoked succeeds and yields absent for o; where o's
\* setter was invoked, last with v, build() yields present(v) for o; o is
\* never reported as not initialized.
C4_OptionalAsStated ==
    \A i \in FieldIndexes :
        (BuildReturned /\ IsOptional(i))
            => /\ (~\E k \in Earlier : IsSetOf(k, i))
                     => (ret.kind = "Ok" /\ ret.value[Fields[i].ident] = None)
               /\ (\E k \in Earlier : IsSetOf(k, i))
                     => (ret.kind = "Ok" /\ ret.value[Fields[i].ident] = Some(LastSetArg(i)))
               /\ ret.kind = "Err" => ret.message # Message(Fields[i].ident)

\* a successful build() was made after call k
BuiltSince(k) == \E l \in Earlier : l > k /\ trace[l].kind = "build" /\ trace[l].ok

\* C4, amended: for an Optional field o, build() succeeds whenever the slot
\* of every Plain field is filled, whether o was set or not; a build() that
\* succeeds yields absent for o if o's setter was never invoked, and
\* present(v) if o's setter was last invoked with v and no successful
\* build() came after that call; a build() that fails never names o.
C4_OptionalNeverRequired ==
    \A i \in FieldIndexes :
        (BuildReturned /\ IsOptional(i))
            => /\ (EmptyPlain = {}) <=> (ret.kind = "Ok")
               /\ (ret.kind = "Ok" /\ ~\E k \in Earlier : IsSetOf(k, i))
                     => ret.value[Fields[i].ident] = None
               /\ (ret.kind = "Ok" /\ \E k \in Earlier :
                        /\ IsSetOf(k, i) /\ ~BuiltSince(k)
                        /\ \A l \in Earlier : IsSetOf(l, i) => l <= k)
                     => ret.value[Fields[i].ident] = Some(LastSetArg(i))
               /\ ret.kind \in {"Ok", "Err"}
               /\ ret.kind = "Err" => ret.message # Message(Fields[i].ident)

\* the setter of an Optional field called twice with different values, then
\* a build() that yields present(the second value)
C4_Witness ==
    /\ BuildReturned
    /\ ret.kind = "Ok"
    /\ \E i \in FieldIndexes : \E k, l \in Earlier :
          /\ IsOptional(i)
          /\ k < l /\ IsSetOf(k, i) /\ IsSetOf(l, i)
          /\ trace[k].arg # trace[l].arg
          /\ ret.value[Fields[i].ident] = Some(trace[l].arg)

(***************************************************************************)
(* C5                                                                      *)
(***************************************************************************)
\* field i carries a well-formed directive whose name is not the field's
HasOtherNameDirective(i) ==
    \E name \in {"arg"} \cup DeriveIdents :
        Fields[i].attrs = <<Each(name)>> /\ name # Fields[i].ident

\* the collection a slot stands for: the one it holds, the empty one if it
\* holds none (what build() places for a Repeated field)
Collection(slot) == IF slot.some THEN slot.val ELSE <<>>

\* the elements handed to the appender of field i, in call order
RECURSIVE Appended(_, _)
Appended(i, k) ==
    IF k = 0 THEN <<>>
    ELSE IF IsEachOf(k, i) THEN Append(Appended(i, k - 1), trace[k].arg)
    ELSE Appended(i, k - 1)

\* C5: for a Repeated field whose directive name differs from the field
\* name, n >= 0 appender calls on a fresh builder leave a collection of
\* exactly the n elements in call order (no collection at all while n = 0),
\* and a later whole-collection setter call with c makes the slot hold
\* exactly c, with none of the appended elements.
C5_AppendThenReplace ==
    \A i \in FieldIndexes :
        (output.kind = "Tokens" /\ builder.made /\ IsRepeated(i) /\ HasOtherNameDirective(i))
            => /\ (\A k \in Calls : trace[k].kind # "build" /\ ~IsSetOf(k, i))
                     => /\ Collection(Slot(i)) = Appended(i, Len(trace))
                        /\ Slot(i).some <=> (\E k \in Calls : IsEachOf(k, i))
               /\ (trace # <<>> /\ IsSetOf(Len(trace), i))
                     => Slot(i) = Some(LastCall.arg)

\* two different elements appended to args, then args(c) with a collection
\* that is not what was appended
C5_Witness ==
    /\ output.kind = "Tokens" /\ builder.made
    /\ Len(trace) = 3
    /\ \E i \in FieldIndexes :
          /\ IsRepeated(i) /\ HasOtherNameDirective(i)
          /\ IsEachOf(1, i) /\ IsEachOf(2, i) /\ IsSetOf(3, i)
          /\ trace[1].arg # trace[2].arg
          /\ old.slots[Fields[i].ident] = Some(<<trace[1].arg, trace[2].arg>>)
          /\ trace[3].arg # <<trace[1].arg, trace[2].arg>>
          /\ Slot(i) = Some(trace[3].arg)

(***************************************************************************)
(* C6                                                                      *)
(***************************************************************************)
\* C6: for a Repeated field r, build() never fails because of r (it neither
\* panics nor names r); a build() that succeeds places the empty collection
\* for r if neither the setter nor the appender of r was ever called, and
\* otherwise exactly the collection held by the slot (the empty one if the
\* slot holds none).
C6_RepeatedDefaultsToEmpty ==
    \A i \in FieldIndexes :
        (BuildReturned /\ IsRepeated(i))
            => /\ ret.kind \in {"Ok", "Err"}
               /\ ret.kind = "Err" => ret.message # Message(Fields[i].ident)
               /\ (ret.kind = "Ok" /\ \A k \in Earlier : ~IsSetOf(k, i) /\ ~IsEachOf(k, i))
                     => (~OldSlot(i).some /\ ret.value[Fields[i].ident] = <<>>)
               /\ (ret.kind = "Ok" /\ OldSlot(i).some)
                     => ret.value[Fields[i].ident] = OldSlot(i).val
               /\ (ret.kind = "Ok" /\ ~OldSlot(i).some)
                     => ret.value[Fields[i].ident] = <<>>

\* the Command of main.rs built with args appended twice and env never
\* touched: args holds the two elements, env the empty collection
C6_Witness ==
    /\ input = Command
    /\ BuildReturned
    /\ ret.kind = "Ok"
    /\ \A k \in Earlier : trace[k].kind # "build" /\ trace[k].field # "env"
    /\ ret.value["env"] = <<>>
    /\ old.slots["args"] = Some(<<"ls", "-l">>)
    /\ ret.value["args"] = <<"ls", "-l">>

(***************************************************************************)
(* C8                                                                      *)
(***************************************************************************)
\* C8: after a successful build() every slot of the builder is empty; for a
\* target with a Plain field, a build() that directly follows a successful
\* build() fails with the not-initialized error of the first Plain field.
C8_BuildEmptiesTheBuilder ==
    BuildReturned
        => /\ ret.kind = "Ok" => \A i \in FieldIndexes : Slot(i) = None
           /\ (/\ Len(trace) >= 2
               /\ trace[Len(trace) - 1].kind = "build"
               /\ trace[Len(trace) - 1].ok
               /\ \E i \in FieldIndexes : IsPlain(i))
                 => /\ ret.kind = "Err"
                    /\ ret.message = Message(Fields[FirstEmptyPlain].ident)
                    /\ EmptyPlain = {i \in FieldIndexes : IsPlain(i)}

\* a Plain field and another field set, a successful build(), and a second
\* build() at once, which fails
C8_Witness ==
    /\ BuildReturned
    /\ Len(trace) = 4
    /\ trace[1].kind = "set" /\ trace[2].kind # "build"
    /\ trace[3].kind = "build" /\ trace[3].ok
    /\ ret = Err("Field executable not initialized")
    /\ \A i \in FieldIndexes : Slot(i) = None

(***************************************************************************)
(* C7                                                                      *)
(***************************************************************************)
\* the methods emitted that work on the slot of field i, in emission order
MethodsOf(i) ==
    SelectSeq(Methods, LAMBDA m : m.kind # "build" /\ m.field = Fields[i].ident)

\* the name of a field's well-formed directive, "" if it has none
DirectiveName(i) ==
    IF Fields[i].attrs \in WellFormedAttrs THEN Fields[i].attrs[1].tokens.right.value ELSE ""

\* C7: the methods emitted for a Repeated field depend on its directive
\* alone: a directive named as the field gives the appender and nothing
\* else; a directive named otherwise gives two methods, the appender named
\* after the directive and the whole-collection setter named after the
\* field; no directive gives the whole-collection setter alone.
C7_MethodsFollowDirective ==
    \A i \in FieldIndexes :
        (output.kind = "Tokens" /\ IsRepeated(i))
            => LET ms == MethodsOf(i)
                   ident == Fields[i].ident
               IN  /\ (Fields[i].attrs = <<>>)
                         => /\ Len(ms) = 1
                            /\ ms[1].kind = "set" /\ ms[1].name = ident
                   /\ (DirectiveName(i) # "" /\ DirectiveName(i) = ident)
                         => /\ Len(ms) = 1
                            /\ ms[1].kind = "each" /\ ms[1].name = ident
                   /\ (DirectiveName(i) # "" /\ DirectiveName(i) # ident)
                         => /\ Len(ms) = 2
                            /\ ms[1].kind = "each" /\ ms[1].name = DirectiveName(i)
                            /\ ms[2].kind = "set" /\ ms[2].name = ident
                   /\ Fields[i].attrs = <<>> \/ DirectiveName(i) # ""

\* a target of two Repeated fields expanded: one with a directive of its own
\* name, which got the appender alone, one with another name, which got two
C7_Witness ==
    /\ output.kind = "Tokens"
    /\ Len(Fields) = 2
    /\ IsRepeated(1) /\ IsRepeated(2)
    /\ Fields[1].attrs = <<Each(Fields[1].ident)>>
    /\ Fields[2].attrs = <<Each("arg")>>
    /\ Len(MethodsOf(1)) = 1 /\ Len(MethodsOf(2)) = 2
    /\ Len(Methods) = 4

(***************************************************************************)
(* C9                                                                      *)
(***************************************************************************)
\* field i is a Repeated field whose attribute list is not a directive
HasMalformedDirective(i) == IsRepeated(i) /\ Fields[i].attrs \in MalformedAttrs

\* C9: when a Repeated field carries a malformed directive, derive returns
\* the diagnostic alone: no builder type, no factory, no method block,
\* however many well-formed fields come before or after that field.
C9_DiagnosticOnly ==
    (input.data = "StructNamed" /\ output # NotExpanded
        /\ \E i \in FieldIndexes : HasMalformedDirective(i))
        => /\ output.kind = "CompileError"
           /\ DOMAIN output \cap {"builder_struct", "builder_fn", "builder_methods"} = {}

\* builder(eac = "x") on the second of two fields, the first a well-formed
\* Repeated field with a directive: the diagnostic is all there is
C9_Witness ==
    /\ output.kind = "CompileError"
    /\ Len(Fields) = 2
    /\ IsRepeated(1) /\ Fields[1].attrs = <<Each("arg")>>
    /\ IsRepeated(2) /\ Fields[2].attrs = <<Eac("x")>>
    /\ DOMAIN output = {"kind", "message", "span"}

(***************************************************************************)
(* C10                                                                     *)
(***************************************************************************)
\* the first field whose directive derive hands to match_vec_each and gets
\* a diagnostic for
FirstMalformed == CHOOSE i \in FieldIndexes :
    HasMalformedDirective(i) /\ \A j \in 1..(i - 1) : ~HasMalformedDirective(j)

\* C10: every metadata entry that is not exactly builder(each = "<string>")
\* makes match_vec_each return the one fixed message, the entries whose
\* arguments are missing or do not parse as an expression included.
C10_OneFixedMessage ==
    (input.data = "StructNamed" /\ output # NotExpanded
        /\ \E i \in FieldIndexes : HasMalformedDirective(i))
        => /\ output.kind = "CompileError"
           /\ output.message = ExpectedEach
           /\ match_vec_each(Fields[FirstMalformed].attrs) = err(output.span)

(***************************************************************************)
(* C11                                                                     *)
(***************************************************************************)
\* what the field loop leaves when no directive fails
Looped == FieldLoop(Fields, 1, NoFields)

\* C11: for every field, whatever its classification, an attribute list of
\* more than one entry or of one malformed entry ends generation in a
\* diagnostic; a field without attributes yields no directive and a field
\* with one well-formed entry yields that directive.
C11_EveryFieldValidated ==
    (input.data = "StructNamed" /\ output # NotExpanded)
        => /\ (\E i \in FieldIndexes : Fields[i].attrs \in MalformedAttrs)
                 => output.kind = "CompileError"
           /\ output.kind = "Tokens"
                 => \A i \in FieldIndexes :
                       /\ Fields[i].attrs = <<>> => ~Looped.acc.vec_each[i].some
                       /\ Fields[i].attrs \in WellFormedAttrs
                             => Looped.acc.vec_each[i] = OkSome(DirectiveName(i))

(***************************************************************************)
(* C12                                                                     *)
(***************************************************************************)
\* the shape the classifier is said to accept: a path of exactly one
\* segment, named wrapper, whose angle brackets hold exactly one type
OneSegmentOneType(ty, wrapper) ==
    /\ ty.kind = "Path"
    /\ Len(ty.segments) = 1
    /\ ty.segments[1].ident = wrapper
    /\ ty.segments[1].arguments.kind = "AngleBracketed"
    /\ Len(ty.segments[1].arguments.args) = 1
    /\ ty.segments[1].arguments.args[1].kind = "Type"

\* C12: the classifier answers Optional or Repeated only for a path type of
\* exactly one segment, named Option or Vec, with exactly one type argument;
\* a path of several segments, an argument list of no or several arguments,
\* or no argument list is Plain with the declared type as inner type.
C12_OnlyExactShapes ==
    output.kind = "Tokens"
        => \A i \in FieldIndexes :
              LET ty == Fields[i].ty
                  entry == Looped.acc.field_tys[i]
              IN  /\ entry.speciality = "Option" => OneSegmentOneType(ty, "Option")
                  /\ entry.speciality = "Vec" => OneSegmentOneType(ty, "Vec")
                  /\ (~OneSegmentOneType(ty, "Option") /\ ~OneSegmentOneType(ty, "Vec"))
                        => (entry.speciality = "Unknown" /\ entry.ty = ty)

(***************************************************************************)
(* C13                                                                     *)
(***************************************************************************)
\* the first generic argument of the first segment of the type of field i
FirstArgument(i) == Fields[i].ty.segments[1].arguments.args[1].ty

\* C13: the field loop records exactly one (inner type, class) entry per
\* field: after it field_idents, field_tys and vec_each are as long as the
\* field list, index i of each describes field i (its name; its class with
\* the declared type for Unknown and the first type argument of an
\* Option/Vec wrapper otherwise), and a directive is recorded only at an
\* index classified Vec, where it is the directive written on that field.
C13_OneEntryPerField ==
    output.kind = "Tokens"
        => LET acc == Looped.acc IN
           /\ Len(acc.field_idents) = Len(Fields)
           /\ Len(acc.field_tys) = Len(Fields)
           /\ Len(acc.vec_each) = Len(Fields)
           /\ \A i \in FieldIndexes :
                 /\ acc.field_idents[i] = Fields[i].ident
                 /\ acc.field_tys[i].speciality \in {"Option", "Vec", "Unknown"}
                 /\ acc.field_tys[i].speciality = "Unknown"
                       => acc.field_tys[i].ty = Fields[i].ty
                 /\ acc.field_tys[i].speciality # "Unknown"
                       => /\ Fields[i].ty.segments[1].ident = acc.field_tys[i].speciality
                          /\ acc.field_tys[i].ty = FirstArgument(i)
                 /\ IsPlain(i) => acc.field_tys[i] = FieldTy(StringTy, "Unknown")
                 /\ IsOptional(i) => acc.field_tys[i] = FieldTy(StringTy, "Option")
                 /\ IsRepeated(i) => acc.field_tys[i] = FieldTy(StringTy, "Vec")
                 /\ acc.vec_each[i].some
                       => /\ acc.field_tys[i].speciality = "Vec"
                          /\ Fields[i].attrs = <<Each(acc.vec_each[i].name)>>
           /\ Len(output.builder_fn.inits) = Len(Fields)
           /\ Len(Methods[Len(Methods)].assigns) = Len(Fields)
           /\ \A i \in FieldIndexes : Methods[Len(Methods)].assigns[i].ident = Fields[i].ident

\* a Repeated field with a directive declared before an Optional field:
\* three lists of two entries, the directive at index 1 alone
C13_Witness ==
    /\ output.kind = "Tokens"
    /\ Len(Fields) = 2
    /\ IsRepeated(1) /\ Fields[1].attrs = <<Each("arg")>>
    /\ IsOptional(2)
    /\ Looped.acc.field_tys = <<FieldTy(StringTy, "Vec"), FieldTy(StringTy, "Option")>>
    /\ Looped.acc.vec_each = <<OkSome("arg"), OkNone>>
    /\ Looped.acc.field_idents = <<Fields[1].ident, Fields[2].ident>>

(***************************************************************************)
(* C14                                                                     *)
(***************************************************************************)
\* ty is one layer of optional container over of: Option<of>, written short
\* or with its full path
OptionalOver(ty, of) == ty = Generic("Option", <<of>>) \/ ty = StdOption(of)

\* C14: the emitted builder struct has one field per target field, with the
\* same names in the same order and no attribute; each field type is one
\* layer of optional container, over the inner type for an Optional field,
\* over the whole collection type for a Repeated field, over the declared
\* type for a Plain field; the factory initialises every field to None.
C14_BuilderStructShape ==
    output.kind = "Tokens"
        => LET emitted == output.builder_struct.fields
               inits == output.builder_fn.inits
           IN  /\ Len(emitted) = Len(Fields)
               /\ Len(inits) = Len(Fields)
               /\ \A i \in FieldIndexes :
                     /\ emitted[i].ident = Fields[i].ident
                     /\ emitted[i].attrs = <<>>
                     /\ inits[i] = [ident |-> Fields[i].ident, value |-> "None"]
                     /\ IF OneSegmentOneType(Fields[i].ty, "Option")
                        THEN OptionalOver(emitted[i].ty, FirstArgument(i))
                        ELSE OptionalOver(emitted[i].ty, Fields[i].ty)

(***************************************************************************)
(* C15                                                                     *)
(***************************************************************************)
\* C15: a setter or appender call made in any builder state succeeds (it
\* returns the builder it was called on, never an error or a panic), leaves
\* its own slot filled, and changes the slot of no other field.
C15_OnlyOwnSlotChanges ==
    (builder.made /\ trace # <<>> /\ LastCall.kind \in {"set", "each"})
        => /\ ret = ReturnsSelf
           /\ old.made
           /\ DOMAIN builder.slots = DOMAIN old.slots
           /\ LastCall.field \in DOMAIN builder.slots
           /\ builder.slots[LastCall.field].some
           /\ \A ident \in DOMAIN old.slots :
                 ident # LastCall.field => builder.slots[ident] = old.slots[ident]

\* on a builder holding executable and args, a setter call on a third field
C15_Witness ==
    /\ builder.made /\ Len(trace) >= 3
    /\ LastCall.kind = "set"
    /\ LastCall.field \notin {"executable", "args"}
    /\ {"executable", "args"} \subseteq DOMAIN old.slots
    /\ old.slots["executable"].some /\ old.slots["args"].some
    /\ builder.slots["executable"] = old.slots["executable"]
    /\ builder.slots["args"] = old.slots["args"]
    /\ ~old.slots[LastCall.field].some

(***************************************************************************)
(* C16                                                                     *)
(***************************************************************************)
\* the last call of the whole-collection setter of field i, 0 if none
LastSetOf(i) ==
    LET sets == {k \in Calls : IsSetOf(k, i)}
    IN  IF sets = {} THEN 0 ELSE CHOOSE k \in sets : \A l \in sets : l <= k

\* the elements handed to the appender of field i by the calls after call
\* from and up to call k, in call order
RECURSIVE AppendedSince(_, _, _)
AppendedSince(i, from, k) ==
    IF k <= from THEN <<>>
    ELSE IF IsEachOf(k, i) THEN Append(AppendedSince(i, from, k - 1), trace[k].arg)
    ELSE AppendedSince(i, from, k - 1)

\* C16: for a Repeated field with an appender and a whole-collection setter,
\* after any interleaving of calls with no build() among them, the slot
\* holds the collection of the most recent setter call followed by the
\* elements appended after it, in call order; with no setter call it holds
\* the appended elements alone (nothing at all while none was appended), and
\* an append on an empty slot makes a one-element collection.
C16_SetThenAppended ==
    \A i \in FieldIndexes :
        (/\ output.kind = "Tokens" /\ builder.made
         /\ IsRepeated(i) /\ HasOtherNameDirective(i)
         /\ \A k \in Calls : trace[k].kind # "build")
            => /\ LastSetOf(i) # 0
                     => Slot(i) = Some(trace[LastSetOf(i)].arg
                                          \o AppendedSince(i, LastSetOf(i), Len(trace)))
               /\ LastSetOf(i) = 0
                     => /\ Collection(Slot(i)) = AppendedSince(i, 0, Len(trace))
                        /\ Slot(i).some <=> (\E k \in Calls : IsEachOf(k, i))
               /\ (trace # <<>> /\ IsEachOf(Len(trace), i) /\ ~OldSlot(i).some)
                     => Slot(i) = Some(<<LastCall.arg>>)

\* arg(x), args(c) with c not empty, arg(y), arg(z) with y # z: the slot
\* holds c, y, z
C16_Witness ==
    /\ output.kind = "Tokens" /\ builder.made
    /\ Len(trace) = 4
    /\ \E i \in FieldIndexes :
          /\ IsRepeated(i) /\ HasOtherNameDirective(i)
          /\ IsEachOf(1, i) /\ IsSetOf(2, i) /\ IsEachOf(3, i) /\ IsEachOf(4, i)
          /\ trace[2].arg # <<>>
          /\ trace[3].arg # trace[4].arg
          /\ Slot(i) = Some(trace[2].arg \o <<trace[3].arg, trace[4].arg>>)

(***************************************************************************)
(* C17                                                                     *)
(***************************************************************************)
\* call k is a build() that failed
IsFailedBuild(k) == trace[k].kind = "build" /\ ~trace[k].ok

\* the last whole-value setter call of field i among the first n calls
LastSetBefore(i, n) ==
    LET sets == {k \in 1..n : IsSetOf(k, i)}
    IN  IF sets = {} THEN 0 ELSE CHOOSE k \in sets : \A l \in sets : l <= k

\* what the first n calls put in the slot of field i, given that no build()
\* among them took anything out of it
SlotFromCalls(i, n) ==
    LET last == LastSetBefore(i, n)
        pushed == AppendedSince(i, last, n)
    IN  IF last = 0 THEN (IF pushed = <<>> THEN None ELSE Some(pushed))
        ELSE IF IsRepeated(i) THEN Some(trace[last].arg \o pushed)
        ELSE Some(trace[last].arg)

\* the value build() gives field i of the target from a slot
Built(i, slot) ==
    IF IsOptional(i) THEN slot ELSE IF IsRepeated(i) THEN Collection(slot) ELSE slot.val

\* C17: a build() that fails leaves every slot of the builder as it was;
\* and when, after one or more failed build() calls and no successful one,
\* the missing fields are supplied and build() succeeds, the target holds
\* for every field what the setter and appender calls made before and after
\* the failed calls put there.
C17_FailedBuildKeepsBuilder ==
    /\ (BuildReturned /\ ret.kind = "Err") => builder = old
    /\ (/\ BuildReturned /\ ret.kind = "Ok"
        /\ \E k \in Earlier : IsFailedBuild(k)
        /\ \A k \in Earlier : trace[k].kind = "build" => ~trace[k].ok)
          => \A i \in FieldIndexes :
                ret.value[Fields[i].ident] = Built(i, SlotFromCalls(i, Len(trace) - 1))

\* a Repeated or Optional field is given a value, build() fails for a
\* missing Plain field, that field is set, and build() returns a target that
\* holds the value given before the failure
C17_Witness ==
    /\ BuildReturned /\ ret.kind = "Ok"
    /\ Len(trace) = 4
    /\ IsFailedBuild(2)
    /\ \E i, j \in FieldIndexes :
          /\ ~IsPlain(i) /\ IsPlain(j)
          /\ IsSetOf(1, i) /\ IsSetOf(3, j)
          /\ ret.value[Fields[i].ident] = Built(i, Some(trace[1].arg))
          /\ ret.value[Fields[j].ident] = trace[3].arg

(***************************************************************************)
(* C18                                                                     *)
(***************************************************************************)
\* the methods of the emitted impl block, in the order emitted
EmittedMethods == output.builder_methods.methods

\* C18: for a target whose field names are pairwise distinct, the methods
\* of the emitted impl block (setters, appenders and build) have pairwise
\* distinct names.
C18_DistinctMethodNames ==
    (/\ output.kind = "Tokens"
     /\ \A i, j \in FieldIndexes : i # j => Fields[i].ident # Fields[j].ident)
        => \A m, n \in 1..Len(EmittedMethods) :
              m # n => EmittedMethods[m].name # EmittedMethods[n].name

=============================================================================
